---- MODULE Spec2Model ----
(***************************************************************************)
(* Model of the Discord Ticket Bot reporting API (src/app.py): the three   *)
(* read endpoints guild_stats, list_licenses and list_servers behind the   *)
(* require_api_key decorator, the relational store they query, and an      *)
(* external writer that commits rows while a request is in progress.       *)
(***************************************************************************)
EXTENDS Integers, Sequences, FiniteSets, Bags, TLC

\* ------------------------------------------------------------------ bounds
\* Commits the external writer makes in one behaviour.
MaxWrites == 2
\* Significant bits of the floating-point format (binary64 has 53).
Precision == 3
\* LIMIT of the ticket_stats query of guild_stats.
WindowLimit == 30

Guilds == {"g1", "g2"}
Ratings == {3, 5}
\* key_id of the license a guild activates with
KeyOf(g) == IF g = "g1" THEN 1 ELSE 2
Keys == {KeyOf(g) : g \in Guilds}
\* (tickets_opened, tickets_closed, avg_resolution_time) of the rows the
\* writer inserts; avg_resolution_time is a float, counted in quanta of the
\* smallest positive float.
RowVals == { <<2, 0, 20>>, <<1, 3, 12>>, <<3, 1, 20>> }
\* the row an imported archive repeats
ArchiveVal == <<1, 1, 12>>
\* X-API-Key of a request; "None" is the header left out
HeaderVals == {"secret", "wrong", "None"}

\* ------------------------------------------------------- generic helpers
Max(S) == CHOOSE x \in S : \A y \in S : y <= x
Min(S) == CHOOSE x \in S : \A y \in S : x <= y

\* s[lo] + ... + s[hi], by halves
RECURSIVE SumRange(_, _, _)
SumRange(s, lo, hi) ==
    IF lo > hi THEN 0
    ELSE IF lo = hi THEN s[lo]
    ELSE LET mid == (lo + hi) \div 2
         IN  SumRange(s, lo, mid) + SumRange(s, mid + 1, hi)

SumSeq(s) == SumRange(s, 1, Len(s))

\* SQL NULL / Python None, for a nullable integer
Null == [isnull |-> TRUE, v |-> 0]
Val(n) == [isnull |-> FALSE, v |-> n]

\* ------------------------------------------------------ float arithmetic
\* Python floats: round-to-nearest, ties-to-even, Precision significant bits.
Pow2(n) == 2 ^ n

\* n/d rounded to the nearest integer, ties to even
RoundHalfEven(n, d) ==
    LET q == n \div d
        r == n % d
    IN  IF 2 * r < d THEN q
        ELSE IF 2 * r > d THEN q + 1
        ELSE IF q % 2 = 0 THEN q ELSE q + 1

\* spacing of the floats around n/d
RECURSIVE Spacing(_, _, _)
Spacing(n, d, s) ==
    IF n < d * s * Pow2(Precision) THEN s ELSE Spacing(n, d, 2 * s)

\* the float nearest to the real n/d (n >= 0, d > 0)
RoundFloat(n, d) ==
    LET s == Spacing(n, d, 1) IN s * RoundHalfEven(n, d * s)

\* float * int
FMul(f, c) == RoundFloat(f * c, 1)
\* float + float
FAdd(a, b) == RoundFloat(a + b, 1)

\* acc + s[lo] + ... + s[hi], added left to right, each sum rounded: the
\* fold over lo..hi is the fold over its second half from the fold over its
\* first half. (The test of left has TLC evaluate the first half before it
\* enters the second, which keeps the evaluation shallow.)
RECURSIVE FSumRange(_, _, _, _)
FSumRange(acc, s, lo, hi) ==
    IF lo > hi THEN acc
    ELSE IF lo = hi THEN FAdd(acc, s[lo])
    ELSE LET mid == (lo + hi) \div 2
             left == FSumRange(acc, s, lo, mid)
         IN  IF left \in Nat THEN FSumRange(left, s, mid + 1, hi) ELSE left

\* sum(...) of Python over a generator of floats: left to right from int 0
FSum(s) == FSumRange(0, s, 1, Len(s))

\* a / b of Python: raises ZeroDivisionError on b = 0
TrueDiv(a, b) ==
    IF b = 0 THEN [raised |-> TRUE, v |-> 0]
    ELSE [raised |-> FALSE, v |-> RoundFloat(a, b)]

\* ------------------------------------------------------------ the store
\* A row of activated_servers; the license it joins to is KeyOf(guild_id).
ServerRow(g, at) ==
    [guild_id |-> g, server_name |-> g, owner_name |-> "owner",
     key_id |-> KeyOf(g), activated_at |-> at]
\* A row of license_keys; keys are created in key_id order.
LicenseRow(k) == [key_id |-> k, created_at |-> k]
\* A row of ticket_stats.
StatRow(g, d, v) ==
    [guild_id |-> g, date |-> d, tickets_opened |-> v[1],
     tickets_closed |-> v[2], avg_resolution_time |-> v[3]]
\* A row of feedback.
FeedbackRow(g, r) == [guild_id |-> g, rating |-> r]

\* ORDER BY date DESC (date is unique among the rows of a guild)
OrderByDateDesc(S) ==
    [i \in 1..Cardinality(S) |->
        CHOOSE r \in S : Cardinality({q \in S : q.date > r.date}) = i - 1]

\* ORDER BY rating (one group per rating)
OrderByRating(S) ==
    [i \in 1..Cardinality(S) |->
        CHOOSE r \in S : Cardinality({q \in S : q.rating < r.rating}) = i - 1]

\* ORDER BY created_at DESC
OrderByCreatedDesc(S) ==
    [i \in 1..Cardinality(S) |->
        CHOOSE r \in S :
           Cardinality({q \in S : q.created_at > r.created_at}) = i - 1]

\* ORDER BY a.activated_at DESC
OrderByActivatedDesc(S) ==
    [i \in 1..Cardinality(S) |->
        CHOOSE r \in S :
           Cardinality({q \in S : q.activated_at > r.activated_at}) = i - 1]

Limit(s, n) == SubSeq(s, 1, IF Len(s) < n THEN Len(s) ELSE n)

\* row_to_dict over the columns a statement selects
StatDict(r) ==
    [date |-> r.date, tickets_opened |-> r.tickets_opened,
     tickets_closed |-> r.tickets_closed,
     avg_resolution_time |-> r.avg_resolution_time]

\* SELECT server_name, owner_name FROM activated_servers WHERE guild_id = g;
\* fetchone(): <<>> is None
SelectGuild(d, g) ==
    LET S == {a \in d.activated_servers : a.guild_id = g}
    IN  IF S = {} THEN <<>>
        ELSE LET a == CHOOSE a \in S : TRUE
             IN  << <<a.server_name, a.owner_name>> >>

\* SELECT date, ... FROM ticket_stats WHERE guild_id = g
\* ORDER BY date DESC LIMIT 30; fetchall() through row_to_dict
SelectTicketStats(d, g) ==
    LET S == {r \in d.ticket_stats : r.guild_id = g}
        ordered == OrderByDateDesc(S)
        window == Limit(ordered, WindowLimit)
    IN  [i \in 1..Len(window) |-> StatDict(window[i])]

\* the feedback rows of guild g, as a bag
GuildFeedback(d, g) ==
    [x \in {y \in DOMAIN d.feedback : y.guild_id = g} |-> d.feedback[x]]

RECURSIVE RatingSum(_, _)
RatingSum(b, S) ==
    IF S = {} THEN 0
    ELSE LET x == CHOOSE x \in S : TRUE
         IN  x.rating * b[x] + RatingSum(b, S \ {x})

\* SELECT COUNT(*) as total, AVG(rating) as avg_rating FROM feedback
\* WHERE guild_id = g; AVG of no rows is NULL
SelectFeedbackOverall(d, g) ==
    LET b == GuildFeedback(d, g)
        n == BagCardinality(b)
    IN  [total |-> n,
         avg_rating |-> IF n = 0 THEN [isnull |-> TRUE, num |-> 0, den |-> 1]
                        ELSE [isnull |-> FALSE,
                              num |-> RatingSum(b, DOMAIN b), den |-> n]]

\* faulty variant (C4): one group per rating of the scale, observed or not
SelectFeedbackDistributionZeroFilled(d, g) ==
    LET b == GuildFeedback(d, g)
        groups == {[rating |-> r,
                    count |-> IF FeedbackRow(g, r) \in DOMAIN b
                              THEN b[FeedbackRow(g, r)] ELSE 0] : r \in Ratings}
    IN  OrderByRating(groups)

\* SELECT rating, COUNT(*) as count FROM feedback WHERE guild_id = g
\* GROUP BY rating ORDER BY rating
SelectFeedbackDistribution(d, g) ==
    LET b == GuildFeedback(d, g)
        groups == {[rating |-> x.rating, count |-> b[x]] : x \in DOMAIN b}
    IN  OrderByRating(groups)

\* SELECT ... FROM license_keys ORDER BY created_at DESC
SelectLicenses(d) == OrderByCreatedDesc(d.license_keys)

\* SELECT a.guild_id, ... FROM activated_servers a JOIN license_keys l
\* ON a.key_id = l.key_id ORDER BY a.activated_at DESC
SelectServers(d) ==
    LET joined == {a \in d.activated_servers :
                      \E l \in d.license_keys : l.key_id = a.key_id}
    IN  OrderByActivatedDesc(joined)

\* SUM(tickets_opened): one unit per ticket of each row
SumOpened(S) ==
    Cardinality(UNION {{<<r, j>> : j \in 1..r.tickets_opened} : r \in S})

\* SUM(tickets_closed)
SumClosed(S) ==
    Cardinality(UNION {{<<r, j>> : j \in 1..r.tickets_closed} : r \in S})

\* SELECT SUM(tickets_opened) as opened, SUM(tickets_closed) as closed
\* FROM ticket_stats WHERE guild_id = g; SUM of no rows is NULL
SelectTicketSums(d, g) ==
    LET S == {r \in d.ticket_stats : r.guild_id = g}
    IN  IF S = {} THEN <<Null, Null>>
        ELSE <<Val(SumOpened(S)),
               Val(SumClosed(S))>>

\* ------------------------------------------------------- the aggregator
\* faulty variant (C3): opened is summed over the rows with closures only
OpenedTotalOfClosed(stats) ==
    LET rows == SelectSeq(stats, LAMBDA s : s.tickets_closed > 0)
    IN  SumSeq([i \in 1..Len(rows) |-> rows[i].tickets_opened])

\* sum(stat["tickets_opened"] for stat in ticket_stats)
OpenedTotal(stats) == SumSeq([i \in 1..Len(stats) |-> stats[i].tickets_opened])
\* sum(stat["tickets_closed"] for stat in ticket_stats)
ClosedTotal(stats) == SumSeq([i \in 1..Len(stats) |-> stats[i].tickets_closed])

\* ... for stat in ticket_stats if stat["tickets_closed"] > 0
ClosedRows(stats) == SelectSeq(stats, LAMBDA s : s.tickets_closed > 0)

\* sum(stat["tickets_closed"] for stat in ticket_stats if ... > 0)
ClosedWeight(stats) == ClosedTotal(ClosedRows(stats))

\* sum(stat["avg_resolution_time"] * stat["tickets_closed"] for ... if ... > 0)
WeightedSum(stats) ==
    LET rows == ClosedRows(stats)
    IN  FSum([i \in 1..Len(rows) |->
                 FMul(rows[i].avg_resolution_time, rows[i].tickets_closed)])

\* faulty variant (C2): the divisor is not tested
AvgResolutionTimeUnguarded(stats) ==
    TrueDiv(WeightedSum(stats), ClosedWeight(stats))

\* A / B if B > 0 else 0
AvgResolutionTime(stats) ==
    IF ClosedWeight(stats) > 0
    THEN TrueDiv(WeightedSum(stats), ClosedWeight(stats))
    ELSE [raised |-> FALSE, v |-> 0]

\* faulty variant (C6): the aggregate is attached as fetched
OrZeroMissing(x) == x

\* stats[0] or 0
OrZero(x) == IF x.isnull \/ x.v = 0 THEN Val(0) ELSE x

\* ---------------------------------------------------------------- state
VARIABLES
    db,                     \* the store: the four tables
    API_KEY,                \* os.getenv('API_KEY'); "None" when unset
    request,                \* the request being served
    pc,                     \* position of the handler
    conn,                   \* "none", "open" or "closed"
    guild_info,             \* guild_stats: fetchone() of the guild lookup
    ticket_stats,           \* guild_stats: the fetched window
    feedback_overall,       \* guild_stats: COUNT/AVG row
    feedback_distribution,  \* guild_stats: rating groups
    licenses,               \* list_licenses: fetched rows
    rows,                   \* list_servers: fetched rows not yet enriched
    servers,                \* list_servers: enriched entries
    response,               \* status and body returned to the client
    calls,                  \* store calls the request made, in order
    snapshot,               \* the store as it was when the connection opened
    writes                  \* commits made by the writer

vars == <<db, API_KEY, request, pc, conn, guild_info, ticket_stats,
          feedback_overall, feedback_distribution, licenses, rows, servers,
          response,
          calls, snapshot, writes>>

locals == <<guild_info, ticket_stats, feedback_overall,
            feedback_distribution, licenses, rows, servers>>

Endpoints == {"guild_stats", "list_licenses", "list_servers"}

NoRequest == [endpoint |-> "none", guild_id |-> "none", header |-> "None"]
NoResponse == [status |-> 0, body |-> [kind |-> "none"]]
NoOverall == [total |-> 0, avg_rating |-> [isnull |-> TRUE, num |-> 0, den |-> 1]]

\* the store as the application finds it: some guilds activated, each with
\* its license, no statistics or feedback recorded yet
Init ==
    /\ \E A \in SUBSET Guilds :
         db = [activated_servers |->
                  {ServerRow(g, Cardinality({h \in A : KeyOf(h) <= KeyOf(g)})) :
                     g \in A},
               license_keys |-> {LicenseRow(KeyOf(g)) : g \in A},
               ticket_stats |-> {},
               feedback |-> EmptyBag]
    /\ API_KEY \in {"secret", "None"}
    /\ request = NoRequest
    /\ pc = "idle"
    /\ conn = "none"
    /\ guild_info = <<>>
    /\ ticket_stats = <<>>
    /\ feedback_overall = NoOverall
    /\ feedback_distribution = <<>>
    /\ licenses = <<>>
    /\ rows = <<>>
    /\ servers = <<>>
    /\ response = NoResponse
    /\ calls = <<>>
    /\ snapshot = db
    /\ writes = 0

\* ----------------------------------------------------- the external writer
Commit(d) ==
    /\ writes < MaxWrites
    /\ pc # "done"
    /\ db' = d
    /\ writes' = writes + 1
    /\ UNCHANGED <<API_KEY, request, pc, conn, locals, response, calls,
                   snapshot>>

CreateLicense(k) ==
    /\ \A l \in db.license_keys : l.key_id # k
    /\ Commit([db EXCEPT !.license_keys = @ \cup {LicenseRow(k)}])

ActivateServer(g) ==
    /\ \A a \in db.activated_servers : a.guild_id # g
    /\ \E l \in db.license_keys : l.key_id = KeyOf(g)
    /\ Commit([db EXCEPT !.activated_servers =
                 @ \cup {ServerRow(g, Cardinality(@) + 1)}])

\* statistics and feedback belong to an activated guild
Activated(g) == \E a \in db.activated_servers : a.guild_id = g

NextDate(g) ==
    Max({0} \cup {r.date : r \in {x \in db.ticket_stats : x.guild_id = g}})
    + 1

InsertDailyStat(g, v) ==
    /\ Activated(g)
    /\ Commit([db EXCEPT !.ticket_stats = @ \cup {StatRow(g, NextDate(g), v)}])

ImportArchive(g) ==
    /\ Activated(g)
    /\ \A r \in db.ticket_stats : r.guild_id # g
    /\ Commit([db EXCEPT !.ticket_stats =
                 @ \cup {StatRow(g, d, ArchiveVal) : d \in 1..WindowLimit}])

InsertFeedback(g, r) ==
    /\ Activated(g)
    /\ Commit([db EXCEPT !.feedback = @ (+) SetToBag({FeedbackRow(g, r)})])

\* ------------------------------------------------------- the access gate
\* faulty variant (C7): the header is not compared
UnauthorizedNever(header, key) == FALSE

\* request.headers.get('X-API-Key') != os.getenv('API_KEY')
Unauthorized(header, key) == header # key

ErrorResponse(status, msg) ==
    [status |-> status, body |-> [kind |-> "error", error |-> msg]]

\* a request arrives and passes through decorated_function
require_api_key(ep, g, h) ==
    /\ pc = "idle"
    /\ request' = [endpoint |-> ep, guild_id |-> g, header |-> h]
    /\ IF Unauthorized(h, API_KEY)
       THEN /\ response' = ErrorResponse(401, "Unauthorized")
            /\ pc' = "done"
       ELSE /\ response' = response
            /\ pc' = "connect"
    /\ UNCHANGED <<db, API_KEY, conn, locals, calls, snapshot, writes>>

\* ------------------------------------------------------ handler plumbing
\* a store call of the request: which, whether it succeeded, and the rows
\* of the store that matched its WHERE clause when it ran
Call(op, ok, seen) == [op |-> op, ok |-> ok, seen |-> IF ok THEN seen ELSE {}]

\* A handler that returns without conn.close() drops its last reference to
\* the connection: whether the connection is finalised by the time the
\* response is returned is up to the interpreter.
Dropped(c) == IF c = "open" THEN {"open", "closed"} ELSE {c}

\* faulty variant (C8): the exception is swallowed and the step runs again
ExceptRetry(c, msg) ==
    /\ response' = response
    /\ pc' = pc
    /\ conn' = c

\* except Exception as e: return jsonify({"error": str(e)}), 500
\* (c is the state of the connection when the exception is raised)
Except(c, msg) ==
    /\ response' = ErrorResponse(500, msg)
    /\ pc' = "done"
    /\ conn' \in Dropped(c)

\* faulty variant (C9): every query reads the state the connection started
\* with, as under a snapshot-isolated transaction
ReadSnapshot == snapshot

\* the store state a query reads: the latest committed one (statements
\* of a READ COMMITTED transaction each see the commits made before them)
ReadView == db

\* conn = get_db_connection(); cur = conn.cursor()
get_db_connection ==
    /\ pc = "connect"
    /\ \E ok \in BOOLEAN :
         /\ calls' = Append(calls, Call("connect", ok, {}))
         /\ IF ok
            THEN /\ conn' = "open"
                 /\ snapshot' = db
                 /\ pc' = IF request.endpoint = "guild_stats" THEN "guild"
                          ELSE IF request.endpoint = "list_licenses"
                               THEN "licenses" ELSE "servers"
                 /\ response' = response
            ELSE /\ snapshot' = snapshot
                 /\ Except("none", "OperationalError")
    /\ UNCHANGED <<db, API_KEY, request, locals, writes>>

\* ------------------------------------------------------------ guild_stats
\* faulty variant (C5): the lookup result is not tested
NotFoundNever(info) == FALSE

\* if not guild_info
NotFound(info) == info = <<>>

\* cur.execute("SELECT server_name, owner_name ..."); cur.fetchone();
\* if not guild_info: return 404
guild_stats_lookup ==
    /\ pc = "guild"
    /\ \E ok \in BOOLEAN :
         /\ calls' = Append(calls, Call("guild", ok,
                        {a \in db.activated_servers :
                            a.guild_id = request.guild_id}))
         /\ IF ok
            THEN LET info == SelectGuild(ReadView, request.guild_id)
                 IN  /\ guild_info' = info
                     /\ IF NotFound(info)
                        THEN /\ response' = ErrorResponse(404, "Guild not found")
                             /\ pc' = "done"
                             /\ conn' \in Dropped(conn)
                        ELSE /\ response' = response
                             /\ conn' = conn
                             /\ pc' = "tickets"
            ELSE /\ guild_info' = guild_info
                 /\ Except(conn, "OperationalError")
    /\ UNCHANGED <<db, API_KEY, request, ticket_stats, feedback_overall,
                   feedback_distribution, licenses, rows, servers, snapshot,
                   writes>>

\* cur.execute("SELECT date, ... LIMIT 30"); ticket_stats = [row_to_dict ...]
guild_stats_tickets ==
    /\ pc = "tickets"
    /\ \E ok \in BOOLEAN :
         /\ calls' = Append(calls, Call("tickets", ok,
                        {r \in db.ticket_stats :
                            r.guild_id = request.guild_id}))
         /\ IF ok
            THEN /\ ticket_stats' = SelectTicketStats(ReadView, request.guild_id)
                 /\ response' = response
                 /\ conn' = conn
                 /\ pc' = "fb_overall"
            ELSE /\ ticket_stats' = ticket_stats
                 /\ Except(conn, "OperationalError")
    /\ UNCHANGED <<db, API_KEY, request, guild_info, feedback_overall,
                   feedback_distribution, licenses, rows, servers, snapshot,
                   writes>>

\* cur.execute("SELECT COUNT(*) as total, AVG(rating) ..."); fetchone()
guild_stats_feedback_overall ==
    /\ pc = "fb_overall"
    /\ \E ok \in BOOLEAN :
         /\ calls' = Append(calls, Call("fb_overall", ok,
                        GuildFeedback(db, request.guild_id)))
         /\ IF ok
            THEN /\ feedback_overall' =
                      SelectFeedbackOverall(ReadView, request.guild_id)
                 /\ response' = response
                 /\ conn' = conn
                 /\ pc' = "fb_dist"
            ELSE /\ feedback_overall' = feedback_overall
                 /\ Except(conn, "OperationalError")
    /\ UNCHANGED <<db, API_KEY, request, guild_info, ticket_stats,
                   feedback_distribution, licenses, rows, servers, snapshot,
                   writes>>

\* cur.execute("SELECT rating, COUNT(*) ... GROUP BY rating ORDER BY rating")
guild_stats_feedback_distribution ==
    /\ pc = "fb_dist"
    /\ \E ok \in BOOLEAN :
         /\ calls' = Append(calls, Call("fb_dist", ok,
                        GuildFeedback(db, request.guild_id)))
         /\ IF ok
            THEN /\ feedback_distribution' =
                      SelectFeedbackDistribution(ReadView, request.guild_id)
                 /\ response' = response
                 /\ conn' = conn
                 /\ pc' = "return"
            ELSE /\ feedback_distribution' = feedback_distribution
                 /\ Except(conn, "OperationalError")
    /\ UNCHANGED <<db, API_KEY, request, guild_info, ticket_stats,
                   feedback_overall, licenses, rows, servers, snapshot,
                   writes>>

\* the report object handed to jsonify
GuildReport(avg) ==
    [kind |-> "guild_stats",
     guild |-> [id |-> request.guild_id, name |-> guild_info[1][1],
                owner |-> guild_info[1][2]],
     tickets |-> [daily |-> ticket_stats,
                  total |-> [opened |-> OpenedTotal(ticket_stats),
                             closed |-> ClosedTotal(ticket_stats),
                             avg_resolution_time |-> avg]],
     feedback |-> [overall |-> feedback_overall,
                   distribution |-> feedback_distribution]]

\* conn.close(); return jsonify({...}); jsonify raises on a value the
\* encoder cannot serialise
guild_stats_return ==
    /\ pc = "return"
    /\ request.endpoint = "guild_stats"
    /\ LET avg == AvgResolutionTime(ticket_stats)
       IN  IF avg.raised
           THEN Except("closed", "ZeroDivisionError")
           ELSE \E ok \in BOOLEAN :
                  IF ok
                  THEN /\ conn' = "closed"
                       /\ response' = [status |-> 200,
                                       body |-> GuildReport(avg.v)]
                       /\ pc' = "done"
                  ELSE Except("closed", "TypeError")
    /\ UNCHANGED <<db, API_KEY, request, locals, calls, snapshot, writes>>

\* ---------------------------------------------------------- list_licenses
\* cur.execute("SELECT key_id, ... ORDER BY created_at DESC"); fetchall()
list_licenses_query ==
    /\ pc = "licenses"
    /\ \E ok \in BOOLEAN :
         /\ calls' = Append(calls, Call("licenses", ok, db.license_keys))
         /\ IF ok
            THEN /\ licenses' = SelectLicenses(ReadView)
                 /\ response' = response
                 /\ conn' = conn
                 /\ pc' = "return"
            ELSE /\ licenses' = licenses
                 /\ Except(conn, "OperationalError")
    /\ UNCHANGED <<db, API_KEY, request, guild_info, ticket_stats,
                   feedback_overall, feedback_distribution, rows, servers,
                   snapshot, writes>>

\* conn.close(); return jsonify({"licenses": licenses})
list_licenses_return ==
    /\ pc = "return"
    /\ request.endpoint = "list_licenses"
    /\ \E ok \in BOOLEAN :
         IF ok
         THEN /\ conn' = "closed"
              /\ response' = [status |-> 200,
                              body |-> [kind |-> "list_licenses",
                                        licenses |-> licenses]]
              /\ pc' = "done"
         ELSE Except("closed", "TypeError")
    /\ UNCHANGED <<db, API_KEY, request, locals, calls, snapshot, writes>>

\* ----------------------------------------------------------- list_servers
\* cur.execute("SELECT a.guild_id, ... JOIN ... ORDER BY a.activated_at DESC");
\* servers = []; cur.fetchall() is evaluated once, before the loop
list_servers_query ==
    /\ pc = "servers"
    /\ \E ok \in BOOLEAN :
         /\ calls' = Append(calls, Call("servers", ok, db.activated_servers))
         /\ IF ok
            THEN LET fetched == SelectServers(ReadView)
                 IN  /\ rows' = fetched
                     /\ response' = response
                     /\ conn' = conn
                     /\ pc' = IF fetched = <<>> THEN "return" ELSE "sums"
            ELSE /\ rows' = rows
                 /\ Except(conn, "OperationalError")
    /\ UNCHANGED <<db, API_KEY, request, guild_info, ticket_stats,
                   feedback_overall, feedback_distribution, licenses, servers,
                   snapshot, writes>>

\* the entry built for one fetched row and its aggregate row
ServerEntry(row, stats) ==
    [guild_id |-> row.guild_id, server_name |-> row.server_name,
     owner_name |-> row.owner_name, activated_at |-> row.activated_at,
     license_key |-> row.key_id,
     tickets_opened |-> OrZero(stats[1]),
     tickets_closed |-> OrZero(stats[2])]

\* one iteration of the loop: the per-guild SUM query and servers.append
list_servers_enrich ==
    /\ pc = "sums"
    /\ rows # <<>>
    /\ \E ok \in BOOLEAN :
         /\ calls' = Append(calls, Call("sums", ok,
                        {r \in db.ticket_stats :
                            r.guild_id = Head(rows).guild_id}))
         /\ IF ok
            THEN LET row == Head(rows)
                     stats == SelectTicketSums(ReadView, row.guild_id)
                 IN  /\ servers' = Append(servers, ServerEntry(row, stats))
                     /\ rows' = Tail(rows)
                     /\ response' = response
                     /\ conn' = conn
                     /\ pc' = IF Tail(rows) = <<>> THEN "return" ELSE "sums"
            ELSE /\ servers' = servers
                 /\ rows' = rows
                 /\ Except(conn, "OperationalError")
    /\ UNCHANGED <<db, API_KEY, request, guild_info, ticket_stats,
                   feedback_overall, feedback_distribution, licenses,
                   snapshot, writes>>

\* conn.close(); return jsonify({"servers": servers})
list_servers_return ==
    /\ pc = "return"
    /\ request.endpoint = "list_servers"
    /\ \E ok \in BOOLEAN :
         IF ok
         THEN /\ conn' = "closed"
              /\ response' = [status |-> 200,
                              body |-> [kind |-> "list_servers",
                                        servers |-> servers]]
              /\ pc' = "done"
         ELSE Except("closed", "TypeError")
    /\ UNCHANGED <<db, API_KEY, request, locals, calls, snapshot, writes>>

\* ------------------------------------------------------------------ spec
Writer ==
    \/ \E k \in Keys : CreateLicense(k)
    \/ \E g \in Guilds : ActivateServer(g)
    \/ \E g \in Guilds, v \in RowVals : InsertDailyStat(g, v)
    \/ \E g \in Guilds : ImportArchive(g)
    \/ \E g \in Guilds, r \in Ratings : InsertFeedback(g, r)

Next ==
    \/ \E ep \in Endpoints, g \in Guilds, h \in HeaderVals :
          require_api_key(ep, g, h)
    \/ get_db_connection
    \/ guild_stats_lookup
    \/ guild_stats_tickets
    \/ guild_stats_feedback_overall
    \/ guild_stats_feedback_distribution
    \/ guild_stats_return
    \/ list_licenses_query
    \/ list_licenses_return
    \/ list_servers_query
    \/ list_servers_enrich
    \/ list_servers_return
    \/ Writer

Spec == Init /\ [][Next]_vars


\* ---------------------------------------------------------------- claims
Done200(kind) ==
    pc = "done" /\ response.status = 200 /\ response.body.kind = kind

\* tickets_opened of the first n rows of w, counted ticket by ticket
OpenedUpTo(w, n) ==
    Cardinality(UNION {{<<i, j>> : j \in 1..w[i].tickets_opened} : i \in 1..n})

\* tickets_closed of the first n rows of w, counted ticket by ticket
ClosedUpTo(w, n) ==
    Cardinality(UNION {{<<i, j>> : j \in 1..w[i].tickets_closed} : i \in 1..n})

\* the float sum of avg_resolution_time * tickets_closed over the rows
\* lo..hi of w that have closures, added to acc in window order
RECURSIVE ProductSum(_, _, _, _)
ProductSum(acc, w, lo, hi) ==
    IF lo > hi THEN acc
    ELSE IF lo = hi
         THEN IF w[lo].tickets_closed > 0
              THEN FAdd(acc, FMul(w[lo].avg_resolution_time,
                                  w[lo].tickets_closed))
              ELSE acc
    ELSE LET mid == (lo + hi) \div 2
             left == ProductSum(acc, w, lo, mid)
         IN  IF left \in Nat THEN ProductSum(left, w, mid + 1, hi) ELSE left

\* C1: in a report whose window has a row with tickets_closed > 0,
\* tickets.total.avg_resolution_time is the quotient of the weighted sum and
\* the closed count over the rows with closures, and it lies between the
\* least and the greatest avg_resolution_time of those rows.
C1_WeightedMeanWithinBounds ==
    Done200("guild_stats") =>
        LET w == response.body.tickets.daily
            avg == response.body.tickets.total.avg_resolution_time
            closedIdx == {i \in 1..Len(w) : w[i].tickets_closed > 0}
            times == {w[i].avg_resolution_time : i \in closedIdx}
        IN  closedIdx # {} =>
              /\ avg = RoundFloat(ProductSum(0, w, 1, Len(w)),
                                ClosedUpTo(w, Len(w)))
              /\ Min(times) <= avg
              /\ avg <= Max(times)

\* C2: a window whose rows all have tickets_closed = 0 (the empty window
\* included) gives avg_resolution_time = 0 in the report, and no request
\* ever ends in a division-by-zero failure.
C2_ZeroClosedGivesZero ==
    /\ response.body.kind = "error" => response.body.error # "ZeroDivisionError"
    /\ Done200("guild_stats") =>
         LET w == response.body.tickets.daily
         IN  (\A i \in 1..Len(w) : w[i].tickets_closed = 0) =>
                response.body.tickets.total.avg_resolution_time = 0

C2_Witness ==
    /\ Done200("guild_stats")
    /\ response.body.tickets.daily # <<>>
    /\ \A i \in 1..Len(response.body.tickets.daily) :
          response.body.tickets.daily[i].tickets_closed = 0
    /\ response.body.tickets.total.avg_resolution_time = 0

\* w is the window of the rows T: the at most WindowLimit rows of T with the
\* latest dates, latest first
IsWindowOf(w, T) ==
    /\ Len(w) = IF Cardinality(T) < WindowLimit THEN Cardinality(T)
                ELSE WindowLimit
    /\ \A i \in 1..Len(w) : \E r \in T : w[i] = StatDict(r)
    /\ \A i, j \in 1..Len(w) : i < j => w[i].date > w[j].date
    /\ \A r \in T : (\A i \in 1..Len(w) : w[i].date # r.date) =>
                       \A i \in 1..Len(w) : r.date < w[i].date

\* C3: the window of a report is the at most 30 most recent rows of the
\* guild, latest first, and tickets.total.opened and tickets.total.closed are
\* the sums of tickets_opened and tickets_closed over all rows of the window.
C3_TotalsAreColumnSums ==
    Done200("guild_stats") =>
        LET w == response.body.tickets.daily
        IN  /\ IsWindowOf(w, calls[3].seen)
            /\ response.body.tickets.total.opened = OpenedUpTo(w, Len(w))
            /\ response.body.tickets.total.closed = ClosedUpTo(w, Len(w))

C3_Witness ==
    /\ Done200("guild_stats")
    /\ Len(response.body.tickets.daily) = WindowLimit
    /\ Cardinality(calls[3].seen) > WindowLimit
    /\ \E i \in 1..WindowLimit :
          /\ response.body.tickets.daily[i].tickets_closed = 0
          /\ response.body.tickets.daily[i].tickets_opened > 0
    /\ response.body.tickets.total.opened > response.body.tickets.total.closed

\* the counts of the first n entries of a distribution, row by row
CountsUpTo(dist, n) ==
    Cardinality(UNION {{<<i, j>> : j \in 1..dist[i].count} : i \in 1..n})

\* C4: feedback.distribution has no entry with count 0, is strictly
\* ascending by rating, and when both feedback queries read the same rows
\* of the guild its counts add up to feedback.overall.total.
C4_DistributionMatchesTotal ==
    Done200("guild_stats") =>
        LET dist == response.body.feedback.distribution
        IN  /\ \A i \in 1..Len(dist) : dist[i].count > 0
            /\ \A i, j \in 1..Len(dist) : i < j => dist[i].rating < dist[j].rating
            /\ calls[4].seen = calls[5].seen
               => CountsUpTo(dist, Len(dist))
                     = response.body.feedback.overall.total

C4_Witness ==
    /\ Done200("guild_stats")
    /\ calls[4].seen = calls[5].seen
    /\ Len(response.body.feedback.distribution) = 2
    /\ response.body.feedback.overall.total = 2

\* C5: a guild lookup that finds no row for the requested id ends the
\* request with 404 "Guild not found", and the lookup is the last query.
C5_NotFoundStopsQueries ==
    \A k \in 1..Len(calls) :
        (calls[k].op = "guild" /\ calls[k].ok /\ calls[k].seen = {})
        => /\ pc = "done"
           /\ response = ErrorResponse(404, "Guild not found")
           /\ k = Len(calls)

C5_Witness ==
    /\ pc = "done"
    /\ response.status = 404
    /\ Len(calls) = 2
    /\ calls[2].seen = {}

\* all-time sums of a set of rows, added in date order
AllTimeOpened(T) ==
    LET w == OrderByDateDesc(T)
    IN  SumRange([i \in 1..Len(w) |-> w[i].tickets_opened], 1, Len(w))
AllTimeClosed(T) ==
    LET w == OrderByDateDesc(T)
    IN  SumRange([i \in 1..Len(w) |-> w[i].tickets_closed], 1, Len(w))

\* C6: every entry of a server listing carries tickets_opened and
\* tickets_closed as numbers, never null: the sums over all rows of the
\* entry's own guild, however many, and 0 for a guild without rows.
C6_ServerTotalsAllTime ==
    Done200("list_servers") =>
        \A i \in 1..Len(response.body.servers) :
            LET e == response.body.servers[i]
                T == calls[2 + i].seen
            IN  /\ \A r \in T : r.guild_id = e.guild_id
                /\ ~e.tickets_opened.isnull
                /\ ~e.tickets_closed.isnull
                /\ e.tickets_opened.v = AllTimeOpened(T)
                /\ e.tickets_closed.v = AllTimeClosed(T)
                /\ T = {} => e.tickets_opened.v = 0 /\ e.tickets_closed.v = 0

C6_Witness ==
    /\ Done200("list_servers")
    /\ \E i, j \in 1..Len(response.body.servers) :
          /\ Cardinality(calls[2 + i].seen) > WindowLimit
          /\ response.body.servers[i].tickets_opened.v > WindowLimit
          /\ calls[2 + j].seen = {}
          /\ response.body.servers[j].tickets_opened.v = 0
          /\ response.body.servers[j].tickets_closed.v = 0

\* C7: a request whose X-API-Key differs from API_KEY is answered 401 with
\* no connection opened and no query made, on every endpoint.
C7_GateBeforeStore ==
    (request # NoRequest /\ request.header # API_KEY) =>
        /\ pc = "done"
        /\ response = ErrorResponse(401, "Unauthorized")
        /\ conn = "none"
        /\ calls = <<>>

C7_Witness ==
    /\ response.status = 401
    /\ request.endpoint = "list_servers"
    /\ request.header = "wrong"
    /\ db.activated_servers # {}

\* C8: a store call that fails is the last call of its request (no retry,
\* no later query) and the request is answered 500 with a body holding the
\* error message alone.
C8_FailureIsAtomic ==
    \A k \in 1..Len(calls) :
        ~calls[k].ok =>
           /\ k = Len(calls)
           /\ pc = "done"
           /\ response.status = 500
           /\ response.body.kind = "error"
           /\ DOMAIN response.body = {"kind", "error"}

C8_Witness ==
    /\ response.status = 500
    /\ request.endpoint = "list_servers"
    /\ servers # <<>>
    /\ calls[Len(calls)].op = "sums"
    /\ ~calls[Len(calls)].ok

\* the report of guild g computed from the single store state d
ReportOf(d, g) ==
    LET info == SelectGuild(d, g)
        w == SelectTicketStats(d, g)
    IN  [kind |-> "guild_stats",
         guild |-> [id |-> g, name |-> info[1][1], owner |-> info[1][2]],
         tickets |-> [daily |-> w,
                      total |-> [opened |-> OpenedTotal(w),
                                 closed |-> ClosedTotal(w),
                                 avg_resolution_time |->
                                    AvgResolutionTime(w).v]],
         feedback |-> [overall |-> SelectFeedbackOverall(d, g),
                       distribution |-> SelectFeedbackDistribution(d, g)]]

\* C9: each query of a guild_stats request returns the rows committed when
\* it runs, whatever the earlier queries of the request read: no snapshot
\* is shared between the queries of a request.
C9_IndependentReads ==
    \A k \in 1..Len(calls) :
        calls[k].ok =>
           /\ calls[k].op = "guild" =>
                 guild_info =
                    SelectGuild([activated_servers |-> calls[k].seen],
                                request.guild_id)
           /\ calls[k].op = "tickets" =>
                 ticket_stats =
                    SelectTicketStats([ticket_stats |-> calls[k].seen],
                                      request.guild_id)
           /\ calls[k].op = "fb_overall" =>
                 feedback_overall =
                    SelectFeedbackOverall([feedback |-> calls[k].seen],
                                          request.guild_id)
           /\ calls[k].op = "fb_dist" =>
                 feedback_distribution =
                    SelectFeedbackDistribution([feedback |-> calls[k].seen],
                                               request.guild_id)

\* a report that mixes store states: its two feedback queries read different
\* rows, its feedback total and distribution disagree (which no single store
\* state allows), and it is the report neither of the store the request
\* started with nor of the store it ended with
C9_Witness ==
    /\ Done200("guild_stats")
    /\ calls[4].seen # calls[5].seen
    /\ response.body.feedback.overall.total
          # CountsUpTo(response.body.feedback.distribution,
                       Len(response.body.feedback.distribution))
    /\ \A d \in {snapshot, db} :
          \/ NotFound(SelectGuild(d, request.guild_id))
          \/ response.body # ReportOf(d, request.guild_id)

\* C10: a request that opened a connection has closed it when its response
\* is returned, whatever the outcome.
C10_ConnectionClosedOnReturn ==
    (pc = "done" /\ \E k \in 1..Len(calls) :
                       calls[k].op = "connect" /\ calls[k].ok)
    => conn = "closed"

====
